---- MODULE Spec2Model ----
(***************************************************************************)
(* Model of docs/qdrant/qdrant_analysis.py: the report aggregator.  One    *)
(* run of main(): print the title, load the four batch documents, reduce   *)
(* all points in a single pass, emit the report section by section.        *)
(*                                                                         *)
(* Numbers are integers; a quotient the script prints (a percentage, a     *)
(* mean, a median, a variance) is kept as an exact fraction [num, den],    *)
(* and a fraction whose den is 0 is a computation Python refuses           *)
(* (ZeroDivisionError, StatisticsError).                                   *)
(***************************************************************************)
EXTENDS Integers, Sequences, FiniteSets, TLC

\* ------------------------------------------------------------------ bounds

\* The most points the four documents hold together in one run.
MaxPoints == 3

\* range(1, 5): batches 1..4.
NumBatches == 4

\* ------------------------------------------------------------ input domain

EmptyMap == [k \in {} |-> 0]

\* JSON values with a shape the script tests with isinstance(.., list).
ListOf(s) == [list |-> s]
Scalar(v) == [scalar |-> v]
IsList(v) == "list" \in DOMAIN v

\* The point records a document may hold.  Each exercises one shape the
\* script branches on: both spellings of a dual key, one of them, none; a
\* scalar, a list, a list with a repeated element, an empty list of
\* categories; chains that are no list, chains with and without
\* participants / convergenceScore, scores on and around the bucket limits.
PointUniverse ==
  << [id |-> 1, payload |->
        [sourceFile |-> "f1", file |-> "f2",
         categories |-> ListOf(<<"a", "b">>),
         intelligence_type |-> "t1", intelligenceType |-> "t2",
         enrichment_level |-> "e1", enrichmentLevel |-> "e2",
         convergenceChains |-> ListOf(<<
            [participants |-> <<"x", "y">>, convergenceScore |-> 6] >>)]],
     [id |-> 2, payload |->
        [file |-> "f1", categories |-> Scalar("a"),
         intelligenceType |-> "t1", enrichmentLevel |-> "e1"]],
     [id |-> 3],
     [id |-> 4, payload |->
        [sourceFile |-> "f2", categories |-> ListOf(<<"a", "a">>)]],
     [id |-> 5, payload |->
        [convergenceChains |-> ListOf(<<
            [participants |-> <<"x">>, convergenceScore |-> -1],
            [convergenceScore |-> 22],
            [participants |-> <<"x", "y", "z">>] >>)]],
     [id |-> 6, payload |->
        [file |-> "f3", convergenceChains |-> Scalar("none")]],
     [id |-> 7, payload |->
        [categories |-> ListOf(<< >>),
         convergenceChains |-> ListOf(<<
            [participants |-> << >>, convergenceScore |-> 5] >>)]],
     [id |-> 8, payload |->
        [convergenceChains |-> ListOf(<<
            [convergenceScore |-> 0], [convergenceScore |-> 15],
            [convergenceScore |-> 20] >>)]],
     [id |-> 9, payload |->
        [sourceFile |-> "f1", intelligence_type |-> "t2",
         enrichment_level |-> "e2", categories |-> Scalar("b")]] >>

\* The point lists one document may hold when `room` more points fit.
PointLists(room) ==
  UNION { [1..n -> 1..Len(PointUniverse)] : n \in 0..room }

Points(ixs) == [k \in 1..Len(ixs) |-> PointUniverse[ixs[k]]]

\* --------------------------------------------------------------- variables

VARIABLES
  pc,                 \* where main() stands
  error,              \* the uncaught exception that ended the run, or "none"
  batch,              \* the loop variable of line 18
  opened,             \* the documents opened so far, in order: the batch
                      \* number and what open()/json.load() found there
  stdout,             \* the lines printed so far (their fixed text)
  all_points,
  i,                  \* index of the next point of the pass (1-based)
  files_unique,
  categories_dist,
  intelligence_types,
  convergence_chains,
  enrichment_levels,
  convergence_scores,
  payload_fields,
  percentages,        \* every count/len(all_points)*100 computed
  stats,              \* every statistic attempted
  chain_dist,
  score_ranges,
  quality             \* points_with_files, .._categories, .._intelligence, .._chains

aggregates == << files_unique, categories_dist, intelligence_types,
                 convergence_chains, enrichment_levels, convergence_scores,
                 payload_fields >>

reportVars == << percentages, stats, chain_dist, score_ranges, quality >>

vars == << pc, error, batch, opened, stdout, all_points, i, aggregates,
           reportVars >>

\* ------------------------------------------------------------ the reduction

\* point.get('payload', {})
Payload(point) ==
  IF "payload" \in DOMAIN point THEN point.payload ELSE EmptyMap

Has(payload, key) == key \in DOMAIN payload

\* d[k] += 1 on a defaultdict(int)
Inc(d, k) ==
  IF k \in DOMAIN d THEN [d EXCEPT ![k] = @ + 1] ELSE d @@ (k :> 1)

RECURSIVE IncAll(_, _)
IncAll(d, s) == IF s = << >> THEN d ELSE IncAll(Inc(d, Head(s)), Tail(s))

\* lines 39-40
CatalogFields(fields, payload) == fields \cup DOMAIN payload

\* AddFile with the set assigned instead of added to.
AddFile_KeepLast(files, payload) ==
  IF Has(payload, "sourceFile") THEN {payload.sourceFile}
  ELSE IF Has(payload, "file") THEN {payload.file}
  ELSE files

\* AddFile with `if` for `elif`: both spellings are taken.
AddFile_Both(files, payload) ==
  files \cup (IF Has(payload, "sourceFile") THEN {payload.sourceFile} ELSE {})
        \cup (IF Has(payload, "file") THEN {payload.file} ELSE {})

\* lines 43-46
AddFile(files, payload) ==
  IF Has(payload, "sourceFile") THEN files \cup {payload.sourceFile}
  ELSE IF Has(payload, "file") THEN files \cup {payload.file}
  ELSE files

\* CountCategories without its else branch: a scalar is not counted.
CountCategories_ListOnly(dist, payload) ==
  IF Has(payload, "categories") /\ IsList(payload.categories)
  THEN IncAll(dist, payload.categories.list)
  ELSE dist

\* lines 49-54
CountCategories(dist, payload) ==
  IF Has(payload, "categories")
  THEN IF IsList(payload.categories)
       THEN IncAll(dist, payload.categories.list)
       ELSE Inc(dist, payload.categories.scalar)
  ELSE dist

\* CountIntelligence with `if` for `elif`: both spellings are counted.
CountIntelligence_Both(types, payload) ==
  LET snake == IF Has(payload, "intelligence_type")
               THEN Inc(types, payload.intelligence_type) ELSE types
  IN IF Has(payload, "intelligenceType")
     THEN Inc(snake, payload.intelligenceType) ELSE snake

\* lines 57-60
CountIntelligence(types, payload) ==
  IF Has(payload, "intelligence_type") THEN Inc(types, payload.intelligence_type)
  ELSE IF Has(payload, "intelligenceType") THEN Inc(types, payload.intelligenceType)
  ELSE types

RECURSIVE ParticipantCounts(_)
ParticipantCounts(chains) ==
  IF chains = << >> THEN << >>
  ELSE (IF Has(Head(chains), "participants")
        THEN << Len(Head(chains).participants) >> ELSE << >>)
       \o ParticipantCounts(Tail(chains))

RECURSIVE ChainScores(_)
ChainScores(chains) ==
  IF chains = << >> THEN << >>
  ELSE (IF Has(Head(chains), "convergenceScore")
        THEN << Head(chains).convergenceScore >> ELSE << >>)
       \o ChainScores(Tail(chains))

\* lines 63-68
ExtendChains(sizes, payload) ==
  IF Has(payload, "convergenceChains") /\ IsList(payload.convergenceChains)
  THEN sizes \o ParticipantCounts(payload.convergenceChains.list)
  ELSE sizes

\* lines 63-66, 69-70
ExtendScores(scores, payload) ==
  IF Has(payload, "convergenceChains") /\ IsList(payload.convergenceChains)
  THEN scores \o ChainScores(payload.convergenceChains.list)
  ELSE scores

\* lines 73-76
CountEnrichment(levels, payload) ==
  IF Has(payload, "enrichment_level") THEN Inc(levels, payload.enrichment_level)
  ELSE IF Has(payload, "enrichmentLevel") THEN Inc(levels, payload.enrichmentLevel)
  ELSE levels

\* The aggregate state of lines 24-30 as one value.
EmptyAggregate ==
  [files_unique |-> {}, categories_dist |-> EmptyMap,
   intelligence_types |-> EmptyMap, convergence_chains |-> << >>,
   enrichment_levels |-> EmptyMap, convergence_scores |-> << >>,
   payload_fields |-> {}]

\* lines 36-76: the body of the loop, on the aggregate state
AnalyzePoint(agg, point) ==
  LET payload == Payload(point) IN
  [payload_fields |-> CatalogFields(agg.payload_fields, payload),
   files_unique |-> AddFile(agg.files_unique, payload),
   categories_dist |-> CountCategories(agg.categories_dist, payload),
   intelligence_types |-> CountIntelligence(agg.intelligence_types, payload),
   convergence_chains |-> ExtendChains(agg.convergence_chains, payload),
   convergence_scores |-> ExtendScores(agg.convergence_scores, payload),
   enrichment_levels |-> CountEnrichment(agg.enrichment_levels, payload)]

\* lines 35-76: the whole loop over a list of points
RECURSIVE AnalyzeAll(_, _)
AnalyzeAll(agg, points) ==
  IF points = << >> THEN agg
  ELSE AnalyzeAll(AnalyzePoint(agg, Head(points)), Tail(points))

\* ---------------------------------------------------------------- numerics

RECURSIVE Sum(_)
Sum(s) == IF s = << >> THEN 0 ELSE Head(s) + Sum(Tail(s))

RECURSIVE SumSq(_)
SumSq(s) == IF s = << >> THEN 0 ELSE Head(s) * Head(s) + SumSq(Tail(s))

Sorted(s) == SortSeq(s, LAMBDA a, b : a < b)

Frac(n, d) == [num |-> n, den |-> d]

\* statistics.mean / statistics.median / max / min / statistics.stdev of a
\* list, as an exact fraction; "stdev" is given by its square, the sample
\* variance (n*sum(x^2) - sum(x)^2) / (n*(n-1)).  den = 0: the call raises.
StatValue(stat, xs) ==
  LET n == Len(xs)
      srt == Sorted(xs)
  IN CASE stat = "mean" -> Frac(Sum(xs), n)
       [] stat = "median" ->
            IF n = 0 THEN Frac(0, 0)
            ELSE IF n % 2 = 1 THEN Frac(srt[(n + 1) \div 2], 1)
            ELSE Frac(srt[n \div 2] + srt[n \div 2 + 1], 2)
       [] stat = "max" -> IF n = 0 THEN Frac(0, 0) ELSE Frac(srt[n], 1)
       [] stat = "min" -> IF n = 0 THEN Frac(0, 0) ELSE Frac(srt[1], 1)
       [] stat = "stdev" -> Frac(n * SumSq(xs) - Sum(xs) * Sum(xs), n * (n - 1))

Attempt(sec, stat, xs) ==
  [sec |-> sec, stat |-> stat, n |-> Len(xs),
   num |-> StatValue(stat, xs).num, den |-> StatValue(stat, xs).den]

\* (count / len(all_points)) * 100
Percentage(sec, key, count, total) ==
  [sec |-> sec, key |-> key, num |-> count * 100, den |-> total]

\* ------------------------------------------------------------------- Init

Init ==
  /\ pc = "start"
  /\ error = "none"
  /\ batch = 1
  /\ opened = << >>
  /\ stdout = << >>
  /\ all_points = << >>
  /\ i = 1
  /\ files_unique = EmptyAggregate.files_unique
  /\ categories_dist = EmptyAggregate.categories_dist
  /\ intelligence_types = EmptyAggregate.intelligence_types
  /\ convergence_chains = EmptyAggregate.convergence_chains
  /\ enrichment_levels = EmptyAggregate.enrichment_levels
  /\ convergence_scores = EmptyAggregate.convergence_scores
  /\ payload_fields = EmptyAggregate.payload_fields
  /\ percentages = {}
  /\ stats = {}
  /\ chain_dist = EmptyMap
  /\ score_ranges = EmptyMap
  /\ quality = EmptyMap

\* ---------------------------------------------------------------- actions

Banner == << "=== QDRANT KNOWLEDGE CONSOLIDATOR ANALYSIS ===", "" >>

\* lines 13-14
PrintBanner ==
  /\ pc = "start"
  /\ stdout' = stdout \o Banner
  /\ pc' = "load"
  /\ UNCHANGED << error, batch, opened, all_points, i, aggregates, reportVars >>

AfterLoad(points, b) ==
  IF b < NumBatches THEN "load"
  ELSE IF points = << >> THEN "overview" ELSE "pass"

\* lines 18-21, the document is there and well formed
LoadBatch ==
  /\ pc = "load"
  /\ \E ixs \in PointLists(MaxPoints - Len(all_points)) :
        all_points' = all_points \o Points(ixs)
  /\ opened' = Append(opened, [batch |-> batch, found |-> "ok"])
  /\ batch' = batch + 1
  /\ pc' = AfterLoad(all_points', batch)
  /\ UNCHANGED << error, stdout, i, aggregates, reportVars >>

\* LoadBatchMissing with the missing file skipped and the loop going on.
LoadBatchMissing_Skip ==
  /\ pc = "load"
  /\ opened' = Append(opened, [batch |-> batch, found |-> "missing"])
  /\ batch' = batch + 1
  /\ pc' = AfterLoad(all_points, batch)
  /\ UNCHANGED << error, stdout, all_points, i, aggregates, reportVars >>

\* line 19: open() of a file that is not there
LoadBatchMissing ==
  /\ pc = "load"
  /\ opened' = Append(opened, [batch |-> batch, found |-> "missing"])
  /\ pc' = "failed"
  /\ error' = "FileNotFoundError"
  /\ UNCHANGED << batch, stdout, all_points, i, aggregates, reportVars >>

\* lines 20-21: json.load() of a malformed document, or no result.points in it
LoadBatchMalformed ==
  /\ pc = "load"
  /\ opened' = Append(opened, [batch |-> batch, found |-> "malformed"])
  /\ pc' = "failed"
  /\ \E e \in {"JSONDecodeError", "KeyError"} : error' = e
  /\ UNCHANGED << batch, stdout, all_points, i, aggregates, reportVars >>

\* The aggregate state as it stands.
Aggregate ==
  [files_unique |-> files_unique, categories_dist |-> categories_dist,
   intelligence_types |-> intelligence_types,
   convergence_chains |-> convergence_chains,
   enrichment_levels |-> enrichment_levels,
   convergence_scores |-> convergence_scores,
   payload_fields |-> payload_fields]

\* lines 35-76, one iteration
ProcessPoint ==
  /\ pc = "pass"
  /\ i <= Len(all_points)
  /\ LET agg == AnalyzePoint(Aggregate, all_points[i]) IN
       /\ payload_fields' = agg.payload_fields
       /\ files_unique' = agg.files_unique
       /\ categories_dist' = agg.categories_dist
       /\ intelligence_types' = agg.intelligence_types
       /\ convergence_chains' = agg.convergence_chains
       /\ convergence_scores' = agg.convergence_scores
       /\ enrichment_levels' = agg.enrichment_levels
  /\ i' = i + 1
  /\ pc' = IF i = Len(all_points) THEN "overview" ELSE "pass"
  /\ UNCHANGED << error, batch, opened, stdout, all_points, reportVars >>

Repeat(line, n) == [k \in 1..n |-> line]

\* file_list[:25]
FileListCap == 25

\* lines 94-106: the lines the sample point gives
SampleLines ==
  IF all_points = << >> THEN << >>
  ELSE LET sample_payload == Payload(all_points[1]) IN
       << "- Sample Point ID", "- Sample Payload Keys" >>
       \o (IF Has(sample_payload, "sourceFile")
           THEN << "- Sample File" >> ELSE << >>)
       \o (IF /\ Has(sample_payload, "convergenceChains")
              /\ IsList(sample_payload.convergenceChains)
              /\ Len(sample_payload.convergenceChains.list) > 0
              /\ Has(sample_payload.convergenceChains.list[1], "participants")
           THEN << "- Sample Chain Size", "- First 5 Participants" >>
           ELSE << >>)

\* lines 109-114
FileLines ==
  LET n == Cardinality(files_unique) IN
  Repeat("{i:2d}. {file}", IF n > FileListCap THEN FileListCap ELSE n)
  \o (IF n > FileListCap THEN << "... and more files" >> ELSE << >>)

\* lines 79-115
ReportOverview ==
  /\ pc = "overview"
  /\ stdout' = stdout
       \o << "## Connection Status", "- Total points analyzed", "",
             "## Data Overview", "- Unique files processed",
             "- Payload fields available", "- Field catalog", "",
             "## Sample Point Analysis" >>
       \o SampleLines
       \o << "", "## Unique Files Mapped" >>
       \o FileLines
       \o << "" >>
  /\ pc' = "categories"
  /\ UNCHANGED << error, batch, opened, all_points, i, aggregates, reportVars >>

\* The percentages of one distribution: lines 119-120, 126-127, 176-177.
\* The loop body runs once per key counted, so only when a point was read.
Distribution(sec, dist) ==
  { Percentage(sec, key, dist[key], Len(all_points)) : key \in DOMAIN dist }

\* lines 117-122
ReportCategories ==
  /\ pc = "categories"
  /\ percentages' = percentages \cup Distribution("categories", categories_dist)
  /\ stdout' = stdout \o << "## Categories Distribution:" >>
       \o Repeat("- {cat}: {count} points", Cardinality(DOMAIN categories_dist))
       \o << "" >>
  /\ pc' = "intelligence"
  /\ UNCHANGED << error, batch, opened, all_points, i, aggregates,
                  stats, chain_dist, score_ranges, quality >>

\* lines 124-129
ReportIntelligence ==
  /\ pc = "intelligence"
  /\ percentages' = percentages \cup Distribution("intelligence", intelligence_types)
  /\ stdout' = stdout \o << "## Intelligence Types Analysis:" >>
       \o Repeat("- {intel_type}: {count} points",
                 Cardinality(DOMAIN intelligence_types))
       \o << "" >>
  /\ pc' = "chains"
  /\ UNCHANGED << error, batch, opened, all_points, i, aggregates,
                  stats, chain_dist, score_ranges, quality >>

\* ReportChains without its guard: the statistics are always computed.
ReportChains_Unguarded ==
  /\ pc = "chains"
  /\ stats' = stats \cup
       { Attempt("chains", s, convergence_chains) :
           s \in {"mean", "median", "max", "min"} }
  /\ chain_dist' = IncAll(EmptyMap, convergence_chains)
  /\ stdout' = stdout
       \o << "## Convergence Chain Analysis:", "- Total chains analyzed", "" >>
  /\ pc' = IF convergence_chains = << >> THEN "failed" ELSE "scores"
  /\ error' = IF convergence_chains = << >> THEN "StatisticsError" ELSE error
  /\ UNCHANGED << batch, opened, all_points, i, aggregates,
                  percentages, score_ranges, quality >>

\* lines 131-146
ReportChains ==
  /\ pc = "chains"
  /\ IF convergence_chains # << >>
     THEN /\ stats' = stats \cup
               { Attempt("chains", s, convergence_chains) :
                   s \in {"mean", "median", "max", "min"} }
          /\ chain_dist' = IncAll(EmptyMap, convergence_chains)
          /\ stdout' = stdout
               \o << "## Convergence Chain Analysis:",
                     "- Total chains analyzed",
                     "- Average participants per chain",
                     "- Median participants per chain",
                     "- Max participants in chain",
                     "- Min participants in chain",
                     "- Chain size distribution:" >>
               \o Repeat("  * {size} participants: {count} chains",
                         Cardinality(DOMAIN chain_dist'))
               \o << "" >>
     ELSE /\ stdout' = stdout
               \o << "## Convergence Chain Analysis:",
                     "- No convergence chains data found", "" >>
          /\ UNCHANGED << stats, chain_dist >>
  /\ pc' = "scores"
  /\ UNCHANGED << error, batch, opened, all_points, i, aggregates,
                  percentages, score_ranges, quality >>

RangeNames == {"0-5", "5-10", "10-15", "15-20", "20+"}

\* InRange with the upper limits taken in.
InRange_UpperInclusive(name, s) ==
  CASE name = "0-5" -> 0 <= s /\ s <= 5
    [] name = "5-10" -> 5 <= s /\ s <= 10
    [] name = "10-15" -> 10 <= s /\ s <= 15
    [] name = "15-20" -> 15 <= s /\ s <= 20
    [] name = "20+" -> s >= 20

\* lines 159-163: the condition of each comprehension
InRange(name, s) ==
  CASE name = "0-5" -> 0 <= s /\ s < 5
    [] name = "5-10" -> 5 <= s /\ s < 10
    [] name = "10-15" -> 10 <= s /\ s < 15
    [] name = "15-20" -> 15 <= s /\ s < 20
    [] name = "20+" -> s >= 20

\* lines 158-164
ScoreRanges(scores) ==
  [name \in RangeNames |-> SelectSeq(scores, LAMBDA s : InRange(name, s))]

\* lines 148-171
ReportScores ==
  /\ pc = "scores"
  /\ IF convergence_scores = << >>
     THEN /\ stdout' = stdout
               \o << "## Convergence Scores Analysis:",
                     "- No convergence scores data found", "" >>
          /\ pc' = "enrichment"
          /\ UNCHANGED << stats, score_ranges, error >>
     ELSE LET first == { Attempt("scores", s, convergence_scores) :
                           s \in {"mean", "median", "max", "min"} }
              stdev == Attempt("scores", "stdev", convergence_scores)
              head == << "## Convergence Scores Analysis:",
                         "- Total scores recorded",
                         "- Average convergence score",
                         "- Median convergence score",
                         "- Max convergence score",
                         "- Min convergence score" >>
              ranges == ScoreRanges(convergence_scores)
              filled == { name \in RangeNames : ranges[name] # << >> }
          IN IF stdev.den = 0
             THEN \* statistics.stdev raises on fewer than two values
                  /\ stats' = stats \cup first \cup {stdev}
                  /\ stdout' = stdout \o head
                  /\ pc' = "failed"
                  /\ error' = "StatisticsError"
                  /\ UNCHANGED score_ranges
             ELSE /\ stats' = stats \cup first \cup {stdev}
                       \cup { Attempt(name, "mean", ranges[name]) : name \in filled }
                  /\ score_ranges' = ranges
                  /\ stdout' = stdout \o head
                       \o << "- Standard deviation",
                             "- Score distribution by ranges:" >>
                       \o Repeat("  * {range_name}: {len(scores)} scores",
                                 Cardinality(filled))
                       \o << "" >>
                  /\ pc' = "enrichment"
                  /\ UNCHANGED error
  /\ UNCHANGED << batch, opened, all_points, i, aggregates,
                  percentages, chain_dist, quality >>

\* lines 173-181
ReportEnrichment ==
  /\ pc = "enrichment"
  /\ IF enrichment_levels # EmptyMap
     THEN /\ percentages' =
               percentages \cup Distribution("enrichment", enrichment_levels)
          /\ stdout' = stdout \o << "## Enrichment Levels Analysis:" >>
               \o Repeat("- {level}: {count} points",
                         Cardinality(DOMAIN enrichment_levels))
               \o << "" >>
     ELSE /\ stdout' = stdout
               \o << "## Enrichment Levels Analysis:",
                     "- No enrichment levels data found", "" >>
          /\ UNCHANGED percentages
  /\ pc' = "quality"
  /\ UNCHANGED << error, batch, opened, all_points, i, aggregates,
                  stats, chain_dist, score_ranges, quality >>

\* sum(1 for p in all_points if <one of keys> in p.get('payload', {}))
PointsWith(keys) ==
  Cardinality({ k \in 1..Len(all_points) :
                  \E key \in keys : Has(Payload(all_points[k]), key) })

\* lines 184-187
QualityCounts ==
  [files |-> PointsWith({"sourceFile", "file"}),
   categories |-> PointsWith({"categories"}),
   intelligence |-> PointsWith({"intelligence_type", "intelligenceType"}),
   chains |-> PointsWith({"convergenceChains"})]

\* lines 183-193
ReportQuality ==
  /\ pc = "quality"
  /\ quality' = QualityCounts
  /\ IF Len(all_points) = 0
     THEN \* line 189: points_with_files/len(all_points) divides by zero
          /\ percentages' = percentages
               \cup { Percentage("quality", "files", quality'.files, Len(all_points)) }
          /\ stdout' = stdout \o << "## Data Quality Assessment:" >>
          /\ pc' = "failed"
          /\ error' = "ZeroDivisionError"
     ELSE /\ percentages' = percentages
               \cup { Percentage("quality", key, quality'[key], Len(all_points)) :
                        key \in DOMAIN quality' }
          /\ stdout' = stdout
               \o << "## Data Quality Assessment:",
                     "- Points with file information",
                     "- Points with categories",
                     "- Points with intelligence type",
                     "- Points with convergence chains", "" >>
          /\ pc' = "insights"
          /\ UNCHANGED error
  /\ UNCHANGED << batch, opened, all_points, i, aggregates,
                  stats, chain_dist, score_ranges >>

\* lines 195-217
ReportInsights ==
  /\ pc = "insights"
  /\ stats' = stats \cup
       (IF convergence_scores # << >>
        THEN { Attempt("insights", "mean", convergence_scores) } ELSE {})
  /\ stdout' = stdout
       \o << "## Key Insights & Recommendations:",
             "1. Data completeness", "2. File diversity" >>
       \o (IF convergence_scores # << >>
           THEN << "3. Convergence quality" >> ELSE << >>)
       \o (IF categories_dist # EmptyMap
           THEN << "4. Categorization" >> ELSE << >>)
       \o << "5. Vector quality", "", "## CURL Commands for Verification:" >>
  /\ pc' = "done"
  /\ UNCHANGED << error, batch, opened, all_points, i, aggregates,
                  percentages, chain_dist, score_ranges, quality >>

Next ==
  \/ PrintBanner
  \/ LoadBatch
  \/ LoadBatchMissing
  \/ LoadBatchMalformed
  \/ ProcessPoint
  \/ ReportOverview
  \/ ReportCategories
  \/ ReportIntelligence
  \/ ReportChains
  \/ ReportScores
  \/ ReportEnrichment
  \/ ReportQuality
  \/ ReportInsights

Spec == Init /\ [][Next]_vars

\* ------------------------------------------------------------ properties

Range(s) == { s[k] : k \in 1..Len(s) }

Occurrences(v, s) == Cardinality({ k \in 1..Len(s) : s[k] = v })

Get(d, k) == IF k \in DOMAIN d THEN d[k] ELSE 0

RECURSIVE MapSum(_, _)
MapSum(d, keys) ==
  IF keys = {} THEN 0
  ELSE LET k == CHOOSE x \in keys : TRUE IN d[k] + MapSum(d, keys \ {k})

Total(d) == MapSum(d, DOMAIN d)

\* The payloads of the points the pass has gone through.
Seen == { k \in 1..(i - 1) : k <= Len(all_points) }

PayloadAt(k) == Payload(all_points[k])

LoadErrors == {"FileNotFoundError", "JSONDecodeError", "KeyError"}

\* The run came out of the load loop with every batch read.
Loaded == batch > NumBatches

\* The chain-statistics section has been emitted.
ChainsReported ==
  \/ pc \in {"scores", "enrichment", "quality", "insights", "done"}
  \/ pc = "failed" /\ error \in {"StatisticsError", "ZeroDivisionError"}

\* C1: with N > 0 records, every percentage count/N*100 the report computes
\* (category, intelligence-type and enrichment-level distributions, the four
\* completeness ratios) lies in [0, 100].
C1_PercentagesInRange ==
  Len(all_points) > 0 =>
    \A p \in percentages : 0 <= p.num /\ p.num <= 100 * p.den

\* C2: with zero records in the merged input the run never divides by a
\* total of zero and does not end in a division error.
C2_EmptyInputNeverDividesByZero ==
  (Loaded /\ all_points = << >>) =>
    /\ error # "ZeroDivisionError"
    /\ \A p \in percentages : p.den # 0

\* C3: the chain-statistics and score-statistics sections attempt no
\* statistic on a list for which it is undefined.
C3_StatisticsDefined ==
  /\ error # "StatisticsError"
  /\ \A a \in stats : a.den # 0

\* C4: if no record's payload carries convergenceChains, the participant-count
\* list is empty after the pass, and once the chain-statistics section is out
\* it consists of the "no data found" line, with no statistic computed for it.
C4_NoChainsNoStatistics ==
  (\A k \in 1..Len(all_points) : ~Has(PayloadAt(k), "convergenceChains")) =>
    /\ convergence_chains = << >>
    /\ ChainsReported =>
         /\ "- No convergence chains data found" \in Range(stdout)
         /\ "- Total chains analyzed" \notin Range(stdout)
         /\ \A a \in stats : a.sec # "chains"
         /\ chain_dist = EmptyMap

C4_Witness ==
  /\ pc = "done"
  /\ Len(all_points) >= 2
  /\ \A k \in 1..Len(all_points) : ~Has(PayloadAt(k), "convergenceChains")
  /\ \E k \in 1..Len(all_points) : Has(PayloadAt(k), "categories")
  /\ "- No convergence chains data found" \in Range(stdout)

\* What one payload is to add to the entry of category c.
CategoryAdds(payload, c) ==
  IF ~Has(payload, "categories") THEN 0
  ELSE IF IsList(payload.categories)
       THEN Occurrences(c, payload.categories.list)
       ELSE IF payload.categories.scalar = c THEN 1 ELSE 0

\* C5: counting the categories of one record adds 1 to an entry of the
\* category map for each element of a list value naming it (so a name listed
\* twice gains 2), adds 1 to exactly the entry of a scalar value, leaves every
\* other entry as it was, and changes nothing when the key is absent.
C5_CategoryCounting ==
  [][ pc = "pass" =>
        LET payload == PayloadAt(i)
            names == DOMAIN categories_dist \cup DOMAIN categories_dist'
                       \cup {"a", "b", "c"}
        IN /\ \A c \in names :
                Get(categories_dist', c)
                  = Get(categories_dist, c) + CategoryAdds(payload, c)
           /\ DOMAIN categories_dist' =
                DOMAIN categories_dist
                  \cup { c \in names : CategoryAdds(payload, c) > 0 } ]_vars

C5_Witness ==
  /\ pc = "pass"
  /\ i = 3
  /\ Has(PayloadAt(1), "categories") /\ ~IsList(PayloadAt(1).categories)
  /\ Has(PayloadAt(2), "categories") /\ IsList(PayloadAt(2).categories)
  /\ Len(PayloadAt(2).categories.list) = 2
  /\ ~Has(PayloadAt(3), "categories")
  /\ categories_dist = ("a" :> 2 @@ "b" :> 1)

\* A list as the multiset of its elements.
Multiset(s) == [v \in Range(s) |-> Occurrences(v, s)]

\* The aggregate values the order of the records must not change.
Unordered(agg) ==
  [agg EXCEPT !.convergence_chains = Multiset(@),
              !.convergence_scores = Multiset(@)]

Permuted(f) == [k \in 1..Len(all_points) |-> all_points[f[k]]]

\* C6: at the end of the pass the set of file identities, the three count
\* maps, the multiset of participant counts, the multiset of scores and the
\* set of field names are those the pass yields on any permutation of the
\* merged record sequence.
C6_OrderIndependent ==
  pc = "overview" =>
    \A f \in Permutations(1..Len(all_points)) :
      Unordered(AnalyzeAll(EmptyAggregate, Permuted(f))) = Unordered(Aggregate)

C6_Witness ==
  /\ pc = "overview"
  /\ Len(all_points) >= 3
  /\ Cardinality(files_unique) >= 2
  /\ Len(convergence_scores) >= 2
  /\ Cardinality(DOMAIN categories_dist) >= 2
  /\ \E k \in 1..Len(all_points) :
       Has(PayloadAt(k), "sourceFile") /\ Has(PayloadAt(k), "file")

\* The fixed range a non-negative score belongs to.
RangeOf(s) ==
  IF s < 5 THEN "0-5" ELSE IF s < 10 THEN "5-10"
  ELSE IF s < 15 THEN "10-15" ELSE IF s < 20 THEN "15-20" ELSE "20+"

BucketTotal == Len(score_ranges["0-5"]) + Len(score_ranges["5-10"])
                 + Len(score_ranges["10-15"]) + Len(score_ranges["15-20"])
                 + Len(score_ranges["20+"])

\* C7 as stated: every value of the score list is in exactly one of the five
\* buckets, and the bucket counts sum to the number of scores recorded.
C7_EveryScoreInOneBucket ==
  score_ranges # EmptyMap =>
    /\ \A v \in Range(convergence_scores) :
         \E name \in RangeNames :
           /\ Occurrences(v, score_ranges[name]) = Occurrences(v, convergence_scores)
           /\ \A other \in RangeNames \ {name} : v \notin Range(score_ranges[other])
    /\ BucketTotal = Len(convergence_scores)

\* C7, amended: every score >= 0 is in exactly one bucket, the one of its
\* range; a negative score is in none; the bucket counts sum to the number
\* of scores >= 0.
C7_NonNegativeScoresPartitioned ==
  score_ranges # EmptyMap =>
    /\ \A v \in Range(convergence_scores) : \A name \in RangeNames :
         Occurrences(v, score_ranges[name]) =
           IF v >= 0 /\ name = RangeOf(v)
           THEN Occurrences(v, convergence_scores) ELSE 0
    /\ \A name \in RangeNames :
         Range(score_ranges[name]) \subseteq Range(convergence_scores)
    /\ BucketTotal = Len(SelectSeq(convergence_scores, LAMBDA s : s >= 0))

C7_Witness ==
  /\ score_ranges # EmptyMap
  /\ \E v \in Range(convergence_scores) : v < 0
  /\ 20 \in Range(score_ranges["20+"])
  /\ 15 \in Range(score_ranges["15-20"])
  /\ 0 \in Range(score_ranges["0-5"])
  /\ BucketTotal = 4

\* What a failed load leaves behind, but for the output.
FailsAtLoad(k) ==
  /\ k = Len(opened)
  /\ pc = "failed"
  /\ error \in LoadErrors
  /\ (opened[k].found = "missing") <=> (error = "FileNotFoundError")
  /\ batch = k
  /\ Aggregate = EmptyAggregate
  /\ percentages = {} /\ stats = {}

\* No document is opened twice: the k-th open is of batch k.
NoRetry == \A k \in 1..Len(opened) : opened[k].batch = k

\* C8 as stated: a missing or malformed document ends the run at its load,
\* with no retry and nothing of the report on standard output.
C8_NoOutputOnLoadFailure ==
  /\ NoRetry
  /\ \A k \in 1..Len(opened) :
       opened[k].found # "ok" => FailsAtLoad(k) /\ stdout = << >>

\* C8, amended: a missing or malformed document ends the run at its load,
\* with no retry; standard output then holds the title banner printed before
\* the load (the title line and an empty line) and no section of the report.
C8_OnlyBannerOnLoadFailure ==
  /\ NoRetry
  /\ \A k \in 1..Len(opened) :
       opened[k].found # "ok" => FailsAtLoad(k) /\ stdout = Banner

C8_Witness ==
  /\ pc = "failed"
  /\ error = "JSONDecodeError"
  /\ Len(opened) = 3
  /\ Len(all_points) >= 1
  /\ stdout = Banner

\* The file identity one payload is to contribute, if any.
Identity(payload) ==
  IF Has(payload, "sourceFile") THEN {payload.sourceFile}
  ELSE IF Has(payload, "file") THEN {payload.file}
  ELSE {}

HasFileInfo(payload) == Has(payload, "sourceFile") \/ Has(payload, "file")

\* C9: the set of file identities holds, for each record gone through, the
\* value of sourceFile when present, else that of file, else nothing; its
\* cardinality is at most the number of records with file information, which
\* is at most the number of records.
C9_FileIdentities ==
  /\ files_unique = UNION { Identity(PayloadAt(k)) : k \in Seen }
  /\ Cardinality(files_unique)
       <= Cardinality({ k \in Seen : HasFileInfo(PayloadAt(k)) })
  /\ quality # EmptyMap =>
       /\ Cardinality(files_unique) <= quality.files
       /\ quality.files <= Len(all_points)

C9_Witness ==
  /\ quality # EmptyMap
  /\ quality.files = 3
  /\ Cardinality(files_unique) = 2
  /\ \E k \in 1..Len(all_points) :
       /\ Has(PayloadAt(k), "sourceFile") /\ Has(PayloadAt(k), "file")
       /\ PayloadAt(k).file \notin files_unique
  /\ \E k \in 1..Len(all_points) :
       ~Has(PayloadAt(k), "sourceFile") /\ Has(PayloadAt(k), "file")

\* The key one payload is to count under, snake_case first.
IntelligenceOf(payload) ==
  IF Has(payload, "intelligence_type") THEN {payload.intelligence_type}
  ELSE IF Has(payload, "intelligenceType") THEN {payload.intelligenceType}
  ELSE {}

EnrichmentOf(payload) ==
  IF Has(payload, "enrichment_level") THEN {payload.enrichment_level}
  ELSE IF Has(payload, "enrichmentLevel") THEN {payload.enrichmentLevel}
  ELSE {}

\* C10: the intelligence-type map counts each record once, under its
\* intelligence_type when present and else its intelligenceType, and its
\* counts sum to the completeness assessment's number of records with an
\* intelligence type; the enrichment-level map does the same with
\* enrichment_level / enrichmentLevel, summing to the number of records that
\* have either key.
C10_CountersMatchCompleteness ==
  /\ \A t \in DOMAIN intelligence_types \cup {"t1", "t2"} :
       Get(intelligence_types, t)
         = Cardinality({ k \in Seen : IntelligenceOf(PayloadAt(k)) = {t} })
  /\ \A e \in DOMAIN enrichment_levels \cup {"e1", "e2"} :
       Get(enrichment_levels, e)
         = Cardinality({ k \in Seen : EnrichmentOf(PayloadAt(k)) = {e} })
  /\ quality # EmptyMap =>
       /\ Total(intelligence_types) = quality.intelligence
       /\ Total(enrichment_levels) =
            Cardinality({ k \in 1..Len(all_points) :
                            \/ Has(PayloadAt(k), "enrichment_level")
                            \/ Has(PayloadAt(k), "enrichmentLevel") })

C10_Witness ==
  /\ quality # EmptyMap
  /\ quality.intelligence = 2
  /\ Len(all_points) = 3
  /\ Total(enrichment_levels) = 2
  /\ \E k \in 1..Len(all_points) :
       /\ Has(PayloadAt(k), "intelligence_type")
       /\ Has(PayloadAt(k), "intelligenceType")
       /\ Get(intelligence_types, PayloadAt(k).intelligenceType) = 0
  /\ \E k \in 1..Len(all_points) :
       /\ ~Has(PayloadAt(k), "enrichment_level")
       /\ Has(PayloadAt(k), "enrichmentLevel")

====
